---- MODULE Spec2Model ----
(***************************************************************************)
(* Model of the helium entity-component store: helium_ecs::World (the      *)
(* entity allocator and the vector of type-erased RefCell<HashMap> tables) *)
(* and the HeliumECS wrapper that user code calls.                         *)
(***************************************************************************)
EXTENDS Integers, Sequences, FiniteSets, TLC

\* ---------------------------------------------------------------- bounds
\* new_entity is called at most MaxEntities times in a run.
MaxEntities == 2
\* at most MaxShared shared guards are held on one table at a time.
MaxShared == 2
\* the live count is driven at most MaxWrap below zero (release build).
MaxWrap == 1

\* collider origins of the generated inputs lie in -MaxCoord..MaxCoord on
\* every axis (in halves).
MaxCoord == 2

\* update_gravity is called at most MaxUpdates times between two
\* kill_velocity calls.
MaxUpdates == 3

\* the time elapsed since the last tick is at most MaxElapsed quanta.
MaxElapsed == 2

\* device_event is called at most MaxEvents times.
MaxEvents == 2

\* the update thread runs at most MaxTicks ticks.
MaxTicks == 2

\* The component types of the tests in helium_ecs/src/lib.rs.
Types == {"Health", "Name"}
\* Component values: Health(100) and Health(0) of the tests.
Values == {0, 100}
\* An id that new_entity does not issue within MaxEntities calls.
NeverIssued == MaxEntities + 1
\* Entity ids that callers give components to: the first two ids new_entity
\* issues (no call checks that the id has been issued yet or is still alive).
ComponentArgs == {0, 1}
\* Entity ids that callers pass to the removals: those, and one that is
\* never issued and never holds a component.
EntityArgs == ComponentArgs \cup {NeverIssued}

\* Entity is an unsigned integer: its least value.
EntityMin == 0

VARIABLES
    overflow_checks,  \* build profile: TRUE = debug (checked arithmetic)
    entity_count,     \* World.entity_count
    num_entities,     \* World.num_entities, as a signed residue mod 2^w
    component_maps,   \* World.component_maps: Seq of [type, map, borrow]
    guards,           \* Ref / RefMut values the caller currently holds
    outcome,          \* how the last call ended
    lastOp,           \* the last call: [op, t, e, v, had]; had = the entity
                      \* held a component (of type t) when the call was made
    issued,           \* history: ids returned by new_entity, in order
    removed,          \* history: issued ids later passed to remove_entity
    everAdded,        \* history: types add_component was called with
    released,         \* history: types on which a guard was dropped
    gravity,          \* a Gravity component: [kind, velocity, acceleration]
    impulses,         \* history: <<acceleration, elapsed>> of each
                      \* update_gravity since creation / the last kill_velocity
    gravOp,           \* the last call made on the Gravity component
    mainPc,           \* presentation thread: where the event loop is
    simPc,            \* simulation (update) thread: the stage it is in
    simBurst,         \* the backend call the simulation thread is inside
    event_loop_working, \* Helium.event_loop_working (the shutdown flag)
    event_handler,    \* Helium.event_handler: the queue of input events
    eventLock,        \* holder of the event_handler mutex
    eventPoisoned,    \* the event_handler mutex is poisoned
    rendererLock,     \* holder of the renderer mutex
    accessing,        \* threads inside a HeliumRenderer read or write
    cur,              \* the event popped and being handed to the callbacks
    cbIdx,            \* index of the input function being called
    enqueued,         \* history: events pushed by device_event, in order
    delivered,        \* history: events each input function was called with
    bursts,           \* history: threads that completed a backend call
    transform,        \* the Transform3d of the entity: [position, update_flag]
    model,            \* its Model3d: "none", "unlinked" (no renderer index)
                      \* or "linked"
    tables,           \* the component types that have a table in the World
    instance,         \* the position the renderer was last given for it
    tickPc,           \* the statement of the update thread loop that runs next
    ticks,            \* number of ticks completed
    hit,              \* history: the collision stage of this tick snapped it
    stagePc,          \* [stage, next]: the built-in stage that runs and the
                      \* index of its next query
    stageGuards,      \* the Ref / RefMut guards the stage holds: <<type, mode>>
    aliasing,         \* a query of a stage panicked with "already borrowed"
    camOrder,         \* iteration order of the Camera3d table (entities)
    ctlOrder,         \* iteration order of the CameraController table
    applied,          \* history: <<camera entity, controller entity>> pairs
                      \* the camera block has combined
    camOp,            \* the last operation on the two camera tables
    \* --- helium_collisions::collider
    rect,             \* the RectangleCollider `self` of the collider calls
    other,            \* the collider passed as `other`
    colOp,            \* the last collider call: [op, axis, lo, hi]
    colResult         \* what the last collider predicate returned

ecsVars == <<overflow_checks, entity_count, num_entities, component_maps, guards,
             outcome, lastOp, issued, removed, everAdded, released>>

colVars == <<rect, other, colOp, colResult>>

\* Everything that is not state of the entity-component store.
gravVars == <<gravity, impulses, gravOp>>

engVars == <<mainPc, simPc, simBurst, event_loop_working, event_handler, eventLock,
             eventPoisoned, rendererLock, accessing, cur, cbIdx, enqueued, delivered,
             bursts>>

tickVars == <<transform, model, tables, instance, tickPc, ticks, hit>>

stageVars == <<stagePc, stageGuards, aliasing>>

camVars == <<camOrder, ctlOrder, applied, camOp>>

\* Everything that is not state of the colliders.
nonColVars == <<ecsVars, gravVars, engVars, tickVars, stageVars, camVars>>

\* Everything that is not state of the Gravity component.
nonGravVars == <<ecsVars, colVars, engVars, tickVars, stageVars, camVars>>

\* Everything that is not state of the two engine threads.
nonEngVars == <<ecsVars, colVars, gravVars, tickVars, stageVars, camVars>>

nonEcsVars == <<colVars, gravVars, engVars, tickVars, stageVars, camVars>>

vars == <<ecsVars, colVars, gravVars, engVars, tickVars, stageVars, camVars>>

Panics == {"panic_unwrap_none", "panic_already_borrowed", "panic_overflow"}

\* A panic unwinds out of the caller: no further call is made on the World.
Running == outcome \notin Panics

Op(op, t, e, v, had) == [op |-> op, t |-> t, e |-> e, v |-> v, had |-> had]

\* ------------------------------------------------------- HashMap<Entity,T>
EmptyMap == [k \in {} |-> 0]

HashMapInsert(m, e, v) == [k \in DOMAIN m \cup {e} |-> IF k = e THEN v ELSE m[k]]

HashMapRemove(m, e) == [k \in DOMAIN m \ {e} |-> m[k]]

\* ------------------------------------------------ lookup by runtime type
\* The downcast scan over component_maps: index of the first table whose
\* element type is t, 0 when there is none.
FindMap(maps, t) ==
    LET hits == {i \in 1..Len(maps) : maps[i].type = t}
    IN IF hits = {} THEN 0 ELSE CHOOSE i \in hits : \A j \in hits : i <= j

\* Some table of element type t holds a component for entity.
HasEntry(maps, t, entity) ==
    \E i \in 1..Len(maps) : maps[i].type = t /\ entity \in DOMAIN maps[i].map

\* The ids new_entity has returned so far, and those of them still alive.
Issued == {issued[i] : i \in 1..Len(issued)}

Live == Issued \ removed

\* &mut self methods compile only where no Ref/RefMut of the World is alive.
NoGuards == \A t \in Types : guards[t].shared = 0 /\ guards[t].excl = 0

\* No collider has been constructed.
NoCollider ==
    /\ rect = [kind |-> "none"]
    /\ other = [kind |-> "none"]
    /\ colOp = [op |-> "none", axis |-> 0, lo |-> 0, hi |-> 0]
    /\ colResult = FALSE

NoGravity ==
    /\ gravity = [kind |-> "none"]
    /\ impulses = << >>
    /\ gravOp = "none"

\* The input functions registered with add_input before run().
InputFunctions == 1..2

\* Helium::new: no window, no update thread, an empty event queue.
NoEngine ==
    /\ mainPc = "new"
    /\ simPc = "unspawned"
    /\ simBurst = "none"
    /\ event_loop_working = FALSE
    /\ event_handler = << >>
    /\ eventLock = "none"
    /\ eventPoisoned = FALSE
    /\ rendererLock = "none"
    /\ accessing = {}
    /\ cur = "none"
    /\ cbIdx = 0
    /\ enqueued = << >>
    /\ delivered = [f \in InputFunctions |-> << >>]
    /\ bursts = {}

\* No tick has run and no entity has been given a Transform3d.
NoTick ==
    /\ transform = [kind |-> "none"]
    /\ model = "none"
    /\ tables = {}
    /\ instance = "none"
    /\ tickPc = "unspawned"
    /\ ticks = 0
    /\ hit = FALSE

\* No built-in stage is running: no guard is held.
NoStage ==
    /\ stagePc = [stage |-> "none", next |-> 0]
    /\ stageGuards = << >>
    /\ aliasing = FALSE

\* No camera has been created.
NoCamera ==
    /\ camOrder = << >>
    /\ ctlOrder = << >>
    /\ applied = {}
    /\ camOp = "none"

Init ==
    /\ NoCollider
    /\ NoGravity
    /\ NoEngine
    /\ NoTick
    /\ NoStage
    /\ NoCamera
    /\ overflow_checks \in BOOLEAN
    /\ entity_count = 0
    /\ num_entities = 0
    /\ component_maps = << >>
    /\ guards = [t \in Types |-> [shared |-> 0, excl |-> 0]]
    /\ outcome = "init"
    /\ lastOp = Op("new", "none", -1, 0, FALSE)
    /\ issued = << >>
    /\ removed = {}
    /\ everAdded = {}
    /\ released = {}

\* ------------------------------------------------------------ World (world.rs)
get_num_entities == num_entities

\* new_entity that takes the id from the live count instead of the running
\* counter.
new_entity_recycling ==
    /\ Running /\ NoGuards
    /\ entity_count < MaxEntities
    /\ LET entity_id == num_entities
       IN /\ entity_count' = entity_count + 1
          /\ num_entities' = num_entities + 1
          /\ lastOp' = Op("new_entity", "none", entity_id, 0, FALSE)
          /\ issued' = Append(issued, entity_id)
    /\ outcome' = "ok"
    /\ UNCHANGED nonEcsVars
    /\ UNCHANGED <<overflow_checks, component_maps, guards, removed, everAdded, released>>

\* World::new_entity; HeliumECS::new_entity forwards to it.
new_entity ==
    /\ Running /\ NoGuards
    /\ entity_count < MaxEntities
    /\ LET entity_id == entity_count
       IN /\ entity_count' = entity_count + 1
          /\ num_entities' = num_entities + 1
          /\ lastOp' = Op("new_entity", "none", entity_id, 0, FALSE)
          /\ issued' = Append(issued, entity_id)
    /\ outcome' = "ok"
    /\ UNCHANGED nonEcsVars
    /\ UNCHANGED <<overflow_checks, component_maps, guards, removed, everAdded, released>>

\* The purge stopping after the first table.
RemoveFromFirst(maps, entity) ==
    [i \in 1..Len(maps) |->
        IF i = 1 THEN [maps[i] EXCEPT !.map = HashMapRemove(@, entity)] ELSE maps[i]]

\* ComponentVec::remove applied to every table of the World.
RemoveFromAll(maps, entity) ==
    [i \in 1..Len(maps) |-> [maps[i] EXCEPT !.map = HashMapRemove(@, entity)]]

\* World::remove_entity. The tables are purged first; `num_entities -= 1`
\* then underflows when the count is EntityMin: a checked build panics there,
\* an unchecked build wraps.
remove_entity(entity) ==
    /\ Running /\ NoGuards
    /\ num_entities > EntityMin - MaxWrap
    /\ component_maps' = RemoveFromAll(component_maps, entity)
    /\ IF num_entities = EntityMin /\ overflow_checks
          THEN /\ outcome' = "panic_overflow"
               /\ UNCHANGED num_entities
          ELSE /\ outcome' = "ok"
               /\ num_entities' = num_entities - 1
    /\ lastOp' = Op("remove_entity", "none", entity, 0,
                   \E t \in Types : HasEntry(component_maps, t, entity))
    /\ removed' = removed \cup ({entity} \cap Issued)
    /\ UNCHANGED nonEcsVars
    /\ UNCHANGED <<overflow_checks, entity_count, guards, issued, everAdded, released>>

\* add_component_to_entity that keeps the component an entity already has.
add_component_to_entity_keeping(entity, t, component) ==
    /\ Running /\ NoGuards
    /\ LET i == FindMap(component_maps, t)
       IN IF i # 0
             THEN component_maps' =
                    [component_maps EXCEPT ![i].map =
                        IF entity \in DOMAIN @ THEN @ ELSE HashMapInsert(@, entity, component)]
             ELSE component_maps' =
                    Append(component_maps,
                           [type |-> t,
                            map |-> HashMapInsert(EmptyMap, entity, component),
                            borrow |-> 0])
    /\ outcome' = "ok"
    /\ lastOp' = Op("add_component", t, entity, component, HasEntry(component_maps, t, entity))
    /\ everAdded' = everAdded \cup {t}
    /\ UNCHANGED nonEcsVars
    /\ UNCHANGED <<overflow_checks, entity_count, num_entities, guards, issued,
                   removed, released>>

\* add_component_to_entity that never finds the existing table.
add_component_to_entity_pushing(entity, t, component) ==
    /\ Running /\ NoGuards
    /\ component_maps' =
            Append(component_maps,
                   [type |-> t,
                    map |-> HashMapInsert(EmptyMap, entity, component),
                    borrow |-> 0])
    /\ Len(component_maps) < 2 * Cardinality(Types)
    /\ outcome' = "ok"
    /\ lastOp' = Op("add_component", t, entity, component, HasEntry(component_maps, t, entity))
    /\ everAdded' = everAdded \cup {t}
    /\ UNCHANGED nonEcsVars
    /\ UNCHANGED <<overflow_checks, entity_count, num_entities, guards, issued,
                   removed, released>>

\* World::add_component_to_entity; HeliumECS::add_component forwards to it.
add_component_to_entity(entity, t, component) ==
    /\ Running /\ NoGuards
    /\ LET i == FindMap(component_maps, t)
       IN IF i # 0
             THEN component_maps' =
                    [component_maps EXCEPT ![i].map = HashMapInsert(@, entity, component)]
             ELSE component_maps' =
                    Append(component_maps,
                           [type |-> t,
                            map |-> HashMapInsert(EmptyMap, entity, component),
                            borrow |-> 0])
    /\ outcome' = "ok"
    /\ lastOp' = Op("add_component", t, entity, component, HasEntry(component_maps, t, entity))
    /\ everAdded' = everAdded \cup {t}
    /\ UNCHANGED nonEcsVars
    /\ UNCHANGED <<overflow_checks, entity_count, num_entities, guards, issued,
                   removed, released>>

\* borrow_component_map with shared access treated as exclusive.
borrow_component_map_exclusive(maps, t) ==
    LET i == FindMap(maps, t)
    IN IF i = 0 THEN [kind |-> "None", maps |-> maps]
       ELSE IF maps[i].borrow # 0 THEN [kind |-> "BorrowError", maps |-> maps]
       ELSE [kind |-> "Some", maps |-> [maps EXCEPT ![i].borrow = @ + 1]]

\* World::borrow_component_map: None when no table has element type t,
\* otherwise RefCell::borrow on it (BorrowError while a RefMut is out:
\* borrow flag < 0).
borrow_component_map(maps, t) ==
    LET i == FindMap(maps, t)
    IN IF i = 0 THEN [kind |-> "None", maps |-> maps]
       ELSE IF maps[i].borrow < 0 THEN [kind |-> "BorrowError", maps |-> maps]
       ELSE [kind |-> "Some", maps |-> [maps EXCEPT ![i].borrow = @ + 1]]

\* borrow_component_map_mut without the run-time aliasing check.
borrow_component_map_mut_unchecked(maps, t) ==
    LET i == FindMap(maps, t)
    IN IF i = 0 THEN [kind |-> "None", maps |-> maps]
       ELSE [kind |-> "Some", maps |-> [maps EXCEPT ![i].borrow = -1]]

\* World::borrow_component_map_mut: None when no table has element type t,
\* otherwise RefCell::borrow_mut on it (BorrowMutError unless the flag is 0).
borrow_component_map_mut(maps, t) ==
    LET i == FindMap(maps, t)
    IN IF i = 0 THEN [kind |-> "None", maps |-> maps]
       ELSE IF maps[i].borrow # 0 THEN [kind |-> "BorrowError", maps |-> maps]
       ELSE [kind |-> "Some", maps |-> [maps EXCEPT ![i].borrow = -1]]

\* ------------------------------------------------------- HeliumECS (lib.rs)
\* What `.unwrap()` on the Option of a borrow makes of each result.
UnwrapOutcome(r) ==
    CASE r.kind = "Some" -> "ok"
      [] r.kind = "None" -> "panic_unwrap_none"
      [] OTHER -> "panic_already_borrowed"

\* HeliumECS::query: borrow_component_map::<T>().unwrap()
query(t) ==
    /\ Running
    /\ guards[t].shared < MaxShared
    /\ LET r == borrow_component_map(component_maps, t)
       IN /\ component_maps' = r.maps
          /\ outcome' = UnwrapOutcome(r)
          /\ guards' = IF r.kind = "Some"
                          THEN [guards EXCEPT ![t].shared = @ + 1]
                          ELSE guards
    /\ lastOp' = Op("query", t, -1, 0, FALSE)
    /\ UNCHANGED nonEcsVars
    /\ UNCHANGED <<overflow_checks, entity_count, num_entities, issued,
                   removed, everAdded, released>>

\* HeliumECS::query_mut: borrow_component_map_mut::<T>().unwrap()
query_mut(t) ==
    /\ Running
    /\ LET r == borrow_component_map_mut(component_maps, t)
       IN /\ component_maps' = r.maps
          /\ outcome' = UnwrapOutcome(r)
          /\ guards' = IF r.kind = "Some"
                          THEN [guards EXCEPT ![t].excl = @ + 1]
                          ELSE guards
    /\ lastOp' = Op("query_mut", t, -1, 0, FALSE)
    /\ UNCHANGED nonEcsVars
    /\ UNCHANGED <<overflow_checks, entity_count, num_entities, issued,
                   removed, everAdded, released>>

\* HeliumECS::remove_component: borrow_component_map_mut::<T>().unwrap()
\* .remove(&entity); the temporary RefMut is dropped at the end of the
\* statement.
remove_component(entity, t) ==
    /\ Running /\ NoGuards
    /\ LET r == borrow_component_map_mut(component_maps, t)
           i == FindMap(component_maps, t)
       IN /\ outcome' = UnwrapOutcome(r)
          /\ component_maps' =
               IF r.kind = "Some"
                  THEN [component_maps EXCEPT ![i].map = HashMapRemove(@, entity)]
                  ELSE component_maps
    /\ lastOp' = Op("remove_component", t, entity, 0, FALSE)
    /\ UNCHANGED nonEcsVars
    /\ UNCHANGED <<overflow_checks, entity_count, num_entities, guards, issued,
                   removed, everAdded, released>>

\* Dropping a Ref (end of scope, drop(), early return): the RefCell's
\* borrow flag is decremented.
drop_ref(t) ==
    /\ Running
    /\ guards[t].shared > 0
    /\ LET i == FindMap(component_maps, t)
       IN component_maps' = [component_maps EXCEPT ![i].borrow = @ - 1]
    /\ guards' = [guards EXCEPT ![t].shared = @ - 1]
    /\ outcome' = "ok"
    /\ lastOp' = Op("drop_ref", t, -1, 0, FALSE)
    /\ released' = released \cup {t}
    /\ UNCHANGED nonEcsVars
    /\ UNCHANGED <<overflow_checks, entity_count, num_entities, issued,
                   removed, everAdded>>

\* A RefMut whose drop leaves the borrow flag as it was.
drop_ref_mut_leaking(t) ==
    /\ Running
    /\ guards[t].excl > 0
    /\ guards' = [guards EXCEPT ![t].excl = @ - 1]
    /\ outcome' = "ok"
    /\ lastOp' = Op("drop_ref_mut", t, -1, 0, FALSE)
    /\ released' = released \cup {t}
    /\ UNCHANGED nonEcsVars
    /\ UNCHANGED <<overflow_checks, entity_count, num_entities, component_maps,
                   issued, removed, everAdded>>

\* Dropping a RefMut: the RefCell's borrow flag goes back up by one.
drop_ref_mut(t) ==
    /\ Running
    /\ guards[t].excl > 0
    /\ LET i == FindMap(component_maps, t)
       IN component_maps' = [component_maps EXCEPT ![i].borrow = @ + 1]
    /\ guards' = [guards EXCEPT ![t].excl = @ - 1]
    /\ outcome' = "ok"
    /\ lastOp' = Op("drop_ref_mut", t, -1, 0, FALSE)
    /\ released' = released \cup {t}
    /\ UNCHANGED nonEcsVars
    /\ UNCHANGED <<overflow_checks, entity_count, num_entities, issued,
                   removed, everAdded>>

Next ==
    \/ new_entity
    \/ \E e \in EntityArgs : remove_entity(e)
    \/ \E e \in ComponentArgs, t \in Types, v \in Values : add_component_to_entity(e, t, v)
    \/ \E e \in EntityArgs, t \in Types : remove_component(e, t)

Spec == Init /\ [][Next]_vars

\* The guard discipline: a World with one component per table, and the
\* calls that take and release guards on its tables.
NextBorrow ==
    \/ \E t \in Types : add_component_to_entity(0, t, 100)
    \/ \E t \in Types : query(t)
    \/ \E t \in Types : query_mut(t)
    \/ \E t \in Types : drop_ref(t)
    \/ \E t \in Types : drop_ref_mut(t)

SpecBorrow == Init /\ [][NextBorrow]_vars

\* ====================================================== helium_collisions
\* Coordinates and extents are counted in halves (1 = 0.5): every f32 the
\* collider code computes from whole-number extents and half-number origins
\* is then an integer, and `x / 2.0` of an extent is exact.
Half(x) == x \div 2

Abs(x) == IF x < 0 THEN -x ELSE x

VSub(a, b) == <<a[1] - b[1], a[2] - b[2], a[3] - b[3]>>

VAdd(a, b) == <<a[1] + b[1], a[2] + b[2], a[3] + b[3]>>

VScale(k, a) == <<k * a[1], k * a[2], k * a[3]>>

Dot(a, b) == a[1] * b[1] + a[2] * b[2] + a[3] * b[3]

Cross(a, b) ==
    <<a[2] * b[3] - a[3] * b[2], a[3] * b[1] - a[1] * b[3], a[1] * b[2] - a[2] * b[1]>>

\* std::ops::Range<f32>::contains of the half-open range lo..hi.
RangeContains(lo, hi, x) == lo <= x /\ x < hi

\* std::ops::Range<f32>::is_empty.
RangeIsEmpty(lo, hi) == ~(lo < hi)

PLANE_LOCAL_NORMAL == <<0, 1, 0>>

\* RectangleCollider::compute_vertices
compute_vertices(width, height, length, origin) ==
    LET w2 == Half(width)
        h2 == Half(height)
        l2 == Half(length)
    IN << <<origin[1] + w2, origin[2] + h2, origin[3] + l2>>,
          <<origin[1] + w2, origin[2] + h2, origin[3] - l2>>,
          <<origin[1] - w2, origin[2] + h2, origin[3] + l2>>,
          <<origin[1] - w2, origin[2] + h2, origin[3] - l2>>,
          <<origin[1] + w2, origin[2] - h2, origin[3] + l2>>,
          <<origin[1] + w2, origin[2] - h2, origin[3] - l2>>,
          <<origin[1] - w2, origin[2] - h2, origin[3] + l2>>,
          <<origin[1] - w2, origin[2] - h2, origin[3] - l2>> >>

\* RectangleCollider::new
RectangleCollider(width, height, length, origin) ==
    [kind |-> "rect", width |-> width, height |-> height, length |-> length,
     origin |-> origin,
     vertices |-> compute_vertices(width, height, length, origin)]

\* StationaryPlaneCollider::new with the identity orientation
\* (Quaternion::one()): the corners are not rotated and the normal is
\* PLANE_LOCAL_NORMAL.
StationaryPlaneCollider(width, length, origin) ==
    LET w2 == Half(width)
        l2 == Half(length)
    IN [kind |-> "plane", width |-> width, length |-> length, origin |-> origin,
        plane_points |-> << VAdd(<<-w2, 0, l2>>, origin),
                            VAdd(<<w2, 0, l2>>, origin),
                            VAdd(<<w2, 0, -l2>>, origin),
                            VAdd(<<-w2, 0, -l2>>, origin) >>,
        local_normal |-> PLANE_LOCAL_NORMAL]

\* Collider::width / height / length: the extent along axis 1 (x), 2 (y),
\* 3 (z); a plane's height() is 0.
Extent(c, axis) ==
    CASE axis = 1 -> c.width
      [] axis = 2 -> IF c.kind = "plane" THEN 0 ELSE c.height
      [] OTHER -> c.length

Min4(p, axis) ==
    CHOOSE m \in {p[i][axis] : i \in 1..4} : \A i \in 1..4 : m <= p[i][axis]

Max4(p, axis) ==
    CHOOSE m \in {p[i][axis] : i \in 1..4} : \A i \in 1..4 : m >= p[i][axis]

\* RectangleCollider::contains_x / contains_y / contains_z
rect_contains(c, axis, lo, hi) ==
    LET half == Half(Extent(c, axis))
        start == c.origin[axis] - half
        end == c.origin[axis] + half
    IN RangeContains(start, end, lo) \/ RangeContains(start, end, hi)

\* StationaryPlaneCollider::contains_x / contains_y / contains_z
plane_contains(c, axis, lo, hi) ==
    LET start == Min4(c.plane_points, axis)
        end == Max4(c.plane_points, axis)
    IN IF RangeIsEmpty(start, end)
          THEN RangeContains(lo, hi, start)
          ELSE RangeContains(start, end, lo) \/ RangeContains(start, end, hi)

\* other.contains_x/y/z(range) through the Collider trait object.
contains(c, axis, lo, hi) ==
    IF c.kind = "plane" THEN plane_contains(c, axis, lo, hi)
                        ELSE rect_contains(c, axis, lo, hi)

\* RectangleCollider::is_colliding_x / _y / _z
is_colliding_axis(self, o, axis) ==
    LET half == Half(Extent(self, axis))
    IN contains(o, axis, self.origin[axis] - half, self.origin[axis] + half)

\* The sum of a sequence of 8 numbers (the loop over `distances`).
Sum8(d) == d[1] + d[2] + d[3] + d[4] + d[5] + d[6] + d[7] + d[8]

\* The sign test of one projected point against the plane's four edges.
InsidePlane(plane, p) ==
    LET sign(i) ==
            LET vec_a == VSub(plane.plane_points[i], p)
                vec_b == VSub(plane.plane_points[(i % 4) + 1], p)
            IN IF Dot(plane.local_normal, Cross(vec_a, vec_b)) < 0 THEN -1 ELSE 1
    IN \/ \A i \in 1..4 : sign(i) = 1
       \/ \A i \in 1..4 : sign(i) = -1

\* RectangleCollider::is_colliding: the plane special case, and `false` for
\* every other collider.
is_colliding(self, o) ==
    IF o.kind = "plane"
       THEN LET distances == [i \in 1..8 |->
                                 Dot(o.local_normal, VSub(self.vertices[i], o.origin))]
                sum == Abs(Sum8(distances))
                abs_sum == Sum8([i \in 1..8 |-> Abs(distances[i])])
                projected(i) ==
                    LET dist == Dot(VSub(self.vertices[i], o.origin), o.local_normal)
                    IN VSub(self.vertices[i], VScale(dist, o.local_normal))
            IN /\ abs_sum # sum
               /\ \E i \in 1..8 : InsidePlane(o, projected(i))
       ELSE FALSE

\* One axis of a snap: the new coordinate of self's origin on `axis`, decided
\* by comparing the two origins on `cmp` (RectangleCollider::snap_x/_y/_z
\* compare on the axis they resolve).
SnapCoord(self, o, axis, cmp) ==
    LET self_2 == Half(Extent(self, axis))
        other_2 == Half(Extent(o, axis))
    IN IF self.origin[cmp] < o.origin[cmp]
          THEN o.origin[axis] - other_2 - self_2
          ELSE IF self.origin[cmp] > o.origin[cmp]
                  THEN o.origin[axis] + other_2 + self_2
                  ELSE self.origin[axis]

WithOrigin(self, origin) ==
    [self EXCEPT !.origin = origin,
                 !.vertices = compute_vertices(self.width, self.height, self.length, origin)]

\* RectangleCollider::snap_x / snap_y / snap_z
snap_axis(self, o, axis) ==
    WithOrigin(self, [self.origin EXCEPT ![axis] = SnapCoord(self, o, axis, axis)])

\* RectangleCollider::snap: x, then y, then z; the z branch takes its first
\* comparison on z and its `else if` comparison on the (already snapped) y.
snap(self, o) ==
    LET sx == [self EXCEPT !.origin[1] = SnapCoord(self, o, 1, 1)]
        sy == [sx EXCEPT !.origin[2] = SnapCoord(sx, o, 2, 2)]
        z == IF sy.origin[3] < o.origin[3]
                THEN o.origin[3] - Half(Extent(o, 3)) - Half(Extent(sy, 3))
                ELSE IF sy.origin[2] > o.origin[2]
                        THEN o.origin[3] + Half(Extent(o, 3)) + Half(Extent(sy, 3))
                        ELSE sy.origin[3]
    IN WithOrigin(sy, [sy.origin EXCEPT ![3] = z])

\* RectangleCollider::set_origin
set_origin(self, new_origin) == WithOrigin(self, new_origin)

\* ------------------------------------------------- collider inputs and calls
Coords == -MaxCoord..MaxCoord

Origins == {<<x, y, z>> : x \in Coords, y \in Coords, z \in Coords}

\* Extents (width, height, length) of the generated boxes: 1x1x1 and 1x2x3.
BoxExtents == {<<2, 2, 2>>, <<2, 4, 6>>}

\* The colliders passed as `other`: a 1x2x1 box and an unrotated 2x2 plane,
\* both at the world origin.
GeneratedOthers ==
    {RectangleCollider(2, 4, 2, <<0, 0, 0>>),
     StationaryPlaneCollider(4, 4, <<0, 0, 0>>)}

GeneratedPairs ==
    {<<RectangleCollider(e[1], e[2], e[3], o), c>> :
        e \in BoxExtents, o \in Origins, c \in GeneratedOthers}

\* The pairs of tests::test_rectangle_colliders_x / _y / _z (5x5x5 boxes, the
\* second one 4, 5 and 6 away on one axis).
TestPairsA ==
    {<<RectangleCollider(10, 10, 10, <<0, 0, 0>>),
       RectangleCollider(10, 10, 10, [a \in 1..3 |-> IF a = axis THEN d ELSE 0])>> :
        axis \in 1..3, d \in {8, 10, 12}}

\* The pair of tests::test_rectangle_rectangle_snap*.
TestPairsB ==
    {<<RectangleCollider(6, 12, 2, <<7, 8, 0>>), RectangleCollider(8, 8, 2, <<12, 14, 0>>)>>}

\* The pairs of tests::test_rectangle_plane_collision.
TestPairsC ==
    {<<RectangleCollider(10, 10, 10, <<0, y, 0>>), StationaryPlaneCollider(20, 20, <<0, 0, 0>>)>> :
        y \in {5, 12}}

\* The ranges handed to contains_x / _y / _z.
RangeArgs == {r \in Coords \X Coords : r[1] < r[2]}

\* The origins handed to set_origin and written by the collision stage.
OriginArgs == {<<0, 0, 0>>, <<0, MaxCoord, 0>>, <<-MaxCoord, 0, 1>>}

ColOp(op, axis, lo, hi) == [op |-> op, axis |-> axis, lo |-> lo, hi |-> hi]

col_is_colliding ==
    /\ rect.kind = "rect"
    /\ colResult' = is_colliding(rect, other)
    /\ colOp' = ColOp("is_colliding", 0, 0, 0)
    /\ UNCHANGED <<rect, other, nonColVars>>

col_is_colliding_axis(axis) ==
    /\ rect.kind = "rect"
    /\ colResult' = is_colliding_axis(rect, other, axis)
    /\ colOp' = ColOp("is_colliding_axis", axis, 0, 0)
    /\ UNCHANGED <<rect, other, nonColVars>>

col_contains(axis, lo, hi) ==
    /\ rect.kind = "rect"
    /\ colResult' = contains(rect, axis, lo, hi)
    /\ colOp' = ColOp("contains", axis, lo, hi)
    /\ UNCHANGED <<rect, other, nonColVars>>

col_snap ==
    /\ rect.kind = "rect"
    /\ rect' = snap(rect, other)
    /\ colOp' = ColOp("snap", 0, 0, 0)
    /\ UNCHANGED <<other, colResult, nonColVars>>

col_snap_axis(axis) ==
    /\ rect.kind = "rect"
    /\ rect' = snap_axis(rect, other, axis)
    /\ colOp' = ColOp("snap_axis", axis, 0, 0)
    /\ UNCHANGED <<other, colResult, nonColVars>>

col_set_origin(new_origin) ==
    /\ rect.kind = "rect"
    /\ rect' = set_origin(rect, new_origin)
    /\ colOp' = ColOp("set_origin", 0, 0, 0)
    /\ UNCHANGED <<other, colResult, nonColVars>>

\* handle_gravity_collisions, last statement of the loop over the boxes:
\* `rectangle_colider.origin = transform.position`, a plain field write.
stage_write_origin(position) ==
    /\ rect.kind = "rect"
    /\ rect' = [rect EXCEPT !.origin = position]
    /\ colOp' = ColOp("stage_write_origin", 0, 0, 0)
    /\ UNCHANGED <<other, colResult, nonColVars>>

InitECS ==
    /\ overflow_checks = TRUE
    /\ entity_count = 0
    /\ num_entities = 0
    /\ component_maps = << >>
    /\ guards = [t \in Types |-> [shared |-> 0, excl |-> 0]]
    /\ outcome = "init"
    /\ lastOp = Op("new", "none", -1, 0, FALSE)
    /\ issued = << >>
    /\ removed = {}
    /\ everAdded = {}
    /\ released = {}

InitCollider ==
    /\ InitECS
    /\ NoTick
    /\ NoStage
    /\ NoCamera
    /\ NoGravity
    /\ NoEngine
    /\ \E p \in GeneratedPairs \cup TestPairsA \cup TestPairsB \cup TestPairsC :
          /\ rect = p[1]
          /\ other = p[2]
    /\ colOp = ColOp("new", 0, 0, 0)
    /\ colResult = FALSE

NextCollider ==
    \/ col_is_colliding
    \/ \E axis \in 1..3 : col_is_colliding_axis(axis)
    \/ \E axis \in 1..3, r \in RangeArgs : col_contains(axis, r[1], r[2])
    \/ col_snap
    \/ \E axis \in 1..3 : col_snap_axis(axis)
    \/ \E o \in OriginArgs : col_set_origin(o)
    \/ \E o \in OriginArgs : stage_write_origin(o)

SpecCollider == InitCollider /\ [][NextCollider]_vars

\* ------------------------------------------------------------------ gravity
Zero3 == <<0, 0, 0>>

\* The gravitational constants handed to Gravity::new and set_gravity.
AccelerationArgs == {<<0, -10, 0>>, <<1, 0, -2>>}

\* delta_time.elapsed().as_secs_f32(), in whole time quanta.
ElapsedArgs == 0..MaxElapsed

\* Gravity::new
Gravity(gravitational_constant) ==
    [kind |-> "gravity", velocity |-> Zero3, acceleration |-> gravitational_constant]

update_gravity_assigning(elapsed) ==
    /\ gravity.kind = "gravity"
    /\ Len(impulses) < MaxUpdates
    /\ gravity' = [gravity EXCEPT !.velocity = VScale(elapsed, gravity.acceleration)]
    /\ impulses' = Append(impulses, <<gravity.acceleration, elapsed>>)
    /\ gravOp' = "update_gravity"
    /\ UNCHANGED nonGravVars

update_gravity(elapsed) ==
    /\ gravity.kind = "gravity"
    /\ Len(impulses) < MaxUpdates
    /\ gravity' = [gravity EXCEPT
                      !.velocity = VAdd(gravity.velocity, VScale(elapsed, gravity.acceleration))]
    /\ impulses' = Append(impulses, <<gravity.acceleration, elapsed>>)
    /\ gravOp' = "update_gravity"
    /\ UNCHANGED nonGravVars

set_gravity(gravitational_constant) ==
    /\ gravity.kind = "gravity"
    /\ gravity' = [gravity EXCEPT !.acceleration = gravitational_constant]
    /\ gravOp' = "set_gravity"
    /\ UNCHANGED <<impulses, nonGravVars>>

kill_velocity ==
    /\ gravity.kind = "gravity"
    /\ gravity' = [gravity EXCEPT !.velocity = Zero3]
    /\ impulses' = << >>
    /\ gravOp' = "kill_velocity"
    /\ UNCHANGED nonGravVars

InitGravity ==
    /\ InitECS
    /\ NoTick
    /\ NoStage
    /\ NoCamera
    /\ NoCollider
    /\ NoEngine
    /\ \E g \in AccelerationArgs : gravity = Gravity(g)
    /\ impulses = << >>
    /\ gravOp = "new"

NextGravity ==
    \/ \E elapsed \in ElapsedArgs : update_gravity(elapsed)
    \/ \E g \in AccelerationArgs : set_gravity(g)
    \/ kill_velocity

SpecGravity == InitGravity /\ [][NextGravity]_vars

\* ------------------------------------------------------ the engine threads
\* The device events handed to device_event.
EventArgs == {"MouseMotion", "Key"}

\* The HeliumRenderer calls the update thread can make in each stage:
\* startup functions (create_camera, create_object), update functions and
\* input functions (update_camera and the like), the camera block
\* (move_camera_to_render) and update_transforms_to_renderer.
SimBursts(stage) ==
    CASE stage = "startup" -> {"add_camera", "create_object"}
      [] stage \in {"update", "deliver"} -> {"update_camera"}
      [] stage = "camera" -> {"update_camera"}
      [] stage = "sync" -> {"update_instances"}
      [] OTHER -> {}

\* The stage that follows each stage of the update thread's closure.
NextStage(stage) ==
    CASE stage = "startup" -> "update"
      [] stage = "update" -> "drain"
      [] stage = "camera" -> "physics"
      [] stage = "physics" -> "sync"
      [] stage = "sync" -> "check"

SimStopped == simPc \in {"done", "panicked"}

MainStopped == mainPc \in {"exited", "panicked"}

\* `self.renderer_instance.lock().unwrap().state.<call>(..)`: the guard is
\* taken before the call is entered.
sim_backend_begin(call) ==
    /\ ~MainStopped
    /\ simBurst = "none"
    /\ call \in SimBursts(simPc)
    /\ rendererLock = "none"
    /\ rendererLock' = "sim"
    /\ accessing' = accessing \cup {"sim"}
    /\ simBurst' = call
    /\ UNCHANGED <<mainPc, simPc, event_loop_working, event_handler, eventLock,
                   eventPoisoned, cur, cbIdx, enqueued, delivered, bursts, nonEngVars>>

\* The call returns and the temporary guard is dropped.
sim_backend_end ==
    /\ ~MainStopped
    /\ simBurst # "none"
    /\ rendererLock' = "none"
    /\ accessing' = accessing \ {"sim"}
    /\ simBurst' = "none"
    /\ bursts' = bursts \cup {"sim"}
    /\ UNCHANGED <<mainPc, simPc, event_loop_working, event_handler, eventLock,
                   eventPoisoned, cur, cbIdx, enqueued, delivered, nonEngVars>>

\* A stage other than the event drain runs to its end.
sim_advance ==
    /\ ~MainStopped
    /\ simBurst = "none"
    /\ simPc \in {"startup", "update", "camera", "physics", "sync"}
    /\ simPc' = NextStage(simPc)
    /\ UNCHANGED <<mainPc, simBurst, event_loop_working, event_handler, eventLock,
                   eventPoisoned, rendererLock, accessing, cur, cbIdx, enqueued,
                   delivered, bursts, nonEngVars>>

\* `while let Some(event) = event_handler_clone.lock().unwrap().pop_front()`:
\* the guard is a temporary of the loop condition and lives until the end of
\* the loop body.
sim_pop ==
    /\ ~MainStopped
    /\ simPc = "drain"
    /\ eventLock = "none"
    /\ IF event_handler = << >>
          THEN /\ simPc' = "camera"
               /\ UNCHANGED <<event_handler, eventLock, cur, cbIdx>>
          ELSE /\ cur' = Head(event_handler)
               /\ event_handler' = Tail(event_handler)
               /\ eventLock' = "sim"
               /\ cbIdx' = 1
               /\ simPc' = "deliver"
    /\ UNCHANGED <<mainPc, simBurst, event_loop_working, eventPoisoned, rendererLock,
                   accessing, enqueued, delivered, bursts, nonEngVars>>

\* `input_function(&mut manager, &event)` for the next input function; after
\* the last one the loop body ends and the event_handler guard is dropped.
sim_deliver ==
    /\ ~MainStopped
    /\ simPc = "deliver"
    /\ simBurst = "none"
    /\ delivered' = [delivered EXCEPT ![cbIdx] = Append(@, cur)]
    /\ IF cbIdx + 1 \in InputFunctions
          THEN /\ cbIdx' = cbIdx + 1
               /\ UNCHANGED <<simPc, eventLock, cur>>
          ELSE /\ cbIdx' = 0
               /\ cur' = "none"
               /\ eventLock' = "none"
               /\ simPc' = "drain"
    /\ UNCHANGED <<mainPc, simBurst, event_loop_working, event_handler, eventPoisoned,
                   rendererLock, accessing, enqueued, bursts, nonEngVars>>

\* The input function being called panics (an unwrap of a missing table or
\* component, an already-borrowed table): the closure unwinds, the thread
\* ends and the event_handler guard it holds poisons the mutex.
sim_panic_in_input ==
    /\ ~MainStopped
    /\ simPc = "deliver"
    /\ simBurst = "none"
    /\ delivered' = [delivered EXCEPT ![cbIdx] = Append(@, cur)]
    /\ simPc' = "panicked"
    /\ eventLock' = "none"
    /\ eventPoisoned' = TRUE
    /\ cbIdx' = 0
    /\ cur' = "none"
    /\ UNCHANGED <<mainPc, simBurst, event_loop_working, event_handler, rendererLock,
                   accessing, enqueued, bursts, nonEngVars>>

\* update_transforms_to_renderer: `models.get(&entity).unwrap()` on a dirty
\* Transform3d whose entity has no Model3d (or `get_renderer_index()
\* .unwrap()` on a model without an index) panics.
sim_panic_in_sync ==
    /\ ~MainStopped
    /\ simPc = "sync"
    /\ simBurst = "none"
    /\ simPc' = "panicked"
    /\ UNCHANGED <<mainPc, simBurst, event_loop_working, event_handler, eventLock,
                   eventPoisoned, rendererLock, accessing, cur, cbIdx, enqueued,
                   delivered, bursts, nonEngVars>>

\* `if *event_loop_working_clone.lock().unwrap() == false { break; }`
sim_check ==
    /\ ~MainStopped
    /\ simPc = "check"
    /\ simPc' = IF event_loop_working THEN "update" ELSE "done"
    /\ UNCHANGED <<mainPc, simBurst, event_loop_working, event_handler, eventLock,
                   eventPoisoned, rendererLock, accessing, cur, cbIdx, enqueued,
                   delivered, bursts, nonEngVars>>

\* device_event: `self.event_handler.lock().unwrap().push_back(event)`
device_event(event) ==
    /\ mainPc = "loop"
    /\ Len(enqueued) < MaxEvents
    /\ eventLock = "none"
    /\ IF eventPoisoned
          THEN /\ mainPc' = "panicked"
               /\ UNCHANGED <<event_handler, enqueued>>
          ELSE /\ event_handler' = Append(event_handler, event)
               /\ enqueued' = Append(enqueued, event)
               /\ UNCHANGED mainPc
    /\ UNCHANGED <<simPc, simBurst, event_loop_working, eventLock, eventPoisoned,
                   rendererLock, accessing, cur, cbIdx, delivered, bursts, nonEngVars>>

window_event_begin_unlocked(event) ==
    /\ mainPc = "loop"
    /\ event \in {"RedrawRequested", "Resized"}
    /\ accessing' = accessing \cup {"main"}
    /\ mainPc' = event
    /\ UNCHANGED <<simPc, simBurst, event_loop_working, event_handler, eventLock,
                   eventPoisoned, rendererLock, cur, cbIdx, enqueued, delivered, bursts,
                   nonEngVars>>

\* window_event, RedrawRequested and Resized: `if let Ok(renderer) =
\* self.renderer ... .lock().as_mut() { .. }`, the guard taken first.
window_event_begin(event) ==
    /\ mainPc = "loop"
    /\ event \in {"RedrawRequested", "Resized"}
    /\ rendererLock = "none"
    /\ rendererLock' = "main"
    /\ accessing' = accessing \cup {"main"}
    /\ mainPc' = event
    /\ UNCHANGED <<simPc, simBurst, event_loop_working, event_handler, eventLock,
                   eventPoisoned, cur, cbIdx, enqueued, delivered, bursts, nonEngVars>>

window_event_end_holding ==
    /\ mainPc \in {"RedrawRequested", "Resized"}
    /\ accessing' = accessing \ {"main"}
    /\ bursts' = bursts \cup {"main"}
    /\ mainPc' = "loop"
    /\ UNCHANGED <<simPc, simBurst, event_loop_working, event_handler, eventLock,
                   eventPoisoned, rendererLock, cur, cbIdx, enqueued, delivered,
                   nonEngVars>>

\* The end of the `if let` body: render() / resize() returned, the guard is
\* dropped.
window_event_end ==
    /\ mainPc \in {"RedrawRequested", "Resized"}
    /\ rendererLock' = IF rendererLock = "main" THEN "none" ELSE rendererLock
    /\ accessing' = accessing \ {"main"}
    /\ bursts' = bursts \cup {"main"}
    /\ mainPc' = "loop"
    /\ UNCHANGED <<simPc, simBurst, event_loop_working, event_handler, eventLock,
                   eventPoisoned, cur, cbIdx, enqueued, delivered, nonEngVars>>

\* window_event, CloseRequested, first statement:
\* `*self.event_loop_working.lock().unwrap() = false`
close_requested ==
    /\ mainPc = "loop"
    /\ event_loop_working' = FALSE
    /\ mainPc' = "join"
    /\ UNCHANGED <<simPc, simBurst, event_handler, eventLock, eventPoisoned,
                   rendererLock, accessing, cur, cbIdx, enqueued, delivered, bursts,
                   nonEngVars>>

\* `self.update_thread.take().unwrap().join().unwrap(); event_loop.exit();`
\* join returns once the thread has ended, with Err if it ended in a panic.
join_update_thread ==
    /\ mainPc = "join"
    /\ SimStopped
    /\ mainPc' = IF simPc = "panicked" THEN "panicked" ELSE "exited"
    /\ UNCHANGED <<simPc, simBurst, event_loop_working, event_handler, eventLock,
                   eventPoisoned, rendererLock, accessing, cur, cbIdx, enqueued,
                   delivered, bursts, nonEngVars>>

\* Helium::run followed by resumed: the flag is set, the window and the
\* renderer exist and the update thread has been spawned.
InitEngine ==
    /\ InitECS
    /\ NoTick
    /\ NoStage
    /\ NoCamera
    /\ NoCollider
    /\ NoGravity
    /\ mainPc = "loop"
    /\ simPc = "startup"
    /\ simBurst = "none"
    /\ event_loop_working = TRUE
    /\ event_handler = << >>
    /\ eventLock = "none"
    /\ eventPoisoned = FALSE
    /\ rendererLock = "none"
    /\ accessing = {}
    /\ cur = "none"
    /\ cbIdx = 0
    /\ enqueued = << >>
    /\ delivered = [f \in InputFunctions |-> << >>]
    /\ bursts = {}

\* The update thread moves on to its next stage, event or input function.
SimProgress ==
    \/ sim_advance
    \/ sim_pop
    \/ sim_deliver
    \/ sim_check

NextEngine ==
    \/ \E call \in {"add_camera", "create_object", "update_camera", "update_instances"} :
          sim_backend_begin(call)
    \/ sim_backend_end
    \/ SimProgress
    \/ sim_panic_in_input
    \/ sim_panic_in_sync
    \/ \E event \in EventArgs : device_event(event)
    \/ \E event \in {"RedrawRequested", "Resized"} : window_event_begin(event)
    \/ window_event_end
    \/ close_requested
    \/ join_update_thread

SpecEngine == InitEngine /\ [][NextEngine]_vars

\* Each thread keeps running: a backend call that was entered returns, a
\* stage makes finitely many backend calls and then ends, a handler of the
\* event loop that was entered returns, and a join whose thread has ended
\* returns.
SpecEngineFair ==
    /\ SpecEngine
    /\ WF_vars(sim_backend_end)
    /\ SF_vars(SimProgress)
    /\ WF_vars(window_event_end)
    /\ WF_vars(join_update_thread)

\* The two threads and the mutexes they share.
Threads == {"main", "sim"}

Mutexes == {"renderer", "event_handler", "startup_functions", "update_functions",
            "input_functions", "event_loop_working"}

\* The mutexes whose guard a thread has alive. The update thread keeps the
\* guard of a callback list for the whole `for` over it, the event_handler
\* guard for the body of the `while let`, and the renderer guard for one
\* call; the presentation thread keeps the renderer guard for the `if let`
\* body. The event_loop_working guard never outlives its statement.
Held(thread) ==
    IF thread = "sim"
       THEN {m \in Mutexes :
                \/ m = "renderer" /\ rendererLock = "sim"
                \/ m = "event_handler" /\ eventLock = "sim"
                \/ m = "startup_functions" /\ simPc = "startup"
                \/ m = "update_functions" /\ simPc = "update"
                \/ m = "input_functions" /\ simPc = "deliver"}
       ELSE {m \in Mutexes :
                \/ m = "renderer" /\ rendererLock = "main"
                \/ m = "event_handler" /\ eventLock = "main"}

\* The mutexes the next statement of a thread can lock.
Wanted(thread) ==
    IF thread = "sim"
       THEN IF SimStopped \/ simBurst # "none"
               THEN {}
               ELSE {m \in Mutexes :
                        \/ m = "renderer" /\ SimBursts(simPc) # {}
                        \/ m = "event_handler" /\ simPc = "drain"
                        \/ m = "input_functions" /\ simPc = "drain"
                        \/ m = "update_functions" /\ simPc \in {"startup", "check"}
                        \/ m = "event_loop_working" /\ simPc = "check"}
       ELSE IF mainPc = "loop"
               THEN {"event_handler", "renderer", "event_loop_working"}
               ELSE {}

\* A thread cannot go on before the other one acts: it needs a mutex the
\* other holds, or it is the presentation thread inside join().
WaitsFor(thread, on) ==
    \/ Wanted(thread) \cap Held(on) # {}
    \/ thread = "main" /\ on = "sim" /\ mainPc = "join" /\ ~SimStopped

\* ------------------------------------------------- the stages of one tick
\* One entity with a RectangleCollider and a Transform3d, with or without a
\* Gravity and a Model3d, and one unrotated plane; `tables` says which other
\* component types some entity of the World has.
PlaneOfTick == StationaryPlaneCollider(4, 4, <<0, 0, 0>>)

\* Box centres: on the plane, resting on it, above it; over the plane and
\* beside it.
TickOrigins == {<<x, y, 0>> : x \in {0, 8}, y \in {0, 1, 4}}

\* The positions handed to the Transform3d and manager setters.
PositionArgs == {<<0, 4, 0>>, <<8, 1, 0>>}

\* Two successive reads of delta_time.elapsed() in one stage.
ElapsedPairs == {d \in (0..1) \X (0..1) : d[1] <= d[2]}

\* Transform3d::new
Transform3d(position) == [kind |-> "transform", position |-> position, update_flag |-> FALSE]

\* Transform3d::update_position, Transform3d::set_position
update_position(t, new_position) ==
    [t EXCEPT !.position = new_position, !.update_flag = TRUE]

\* Transform3d::add_position
add_position(t, position_add) ==
    [t EXCEPT !.position = VAdd(t.position, position_add), !.update_flag = TRUE]

TickUnchanged ==
    UNCHANGED <<ecsVars, engVars, stageVars, camVars, other, colOp, colResult, impulses, gravOp>>

\* A user update function calls transform.update_position(p) on the entity.
user_update_position(p) ==
    /\ tickPc = "update"
    /\ transform' = update_position(transform, p)
    /\ UNCHANGED <<rect, gravity, model, tables, instance, tickPc, ticks, hit>>
    /\ TickUnchanged

\* A user update function calls manager.add_component(entity,
\* Transform3d::new(p, ..)): the entry of the entity is replaced.
user_add_component(p) ==
    /\ tickPc = "update"
    /\ transform' = Transform3d(p)
    /\ UNCHANGED <<rect, gravity, model, tables, instance, tickPc, ticks, hit>>
    /\ TickUnchanged

\* HeliumManager::set_position: the three unwraps on the Model3d, then the
\* Transform3d is set and pushed to the renderer.
manager_set_position(p) ==
    /\ tickPc = "update"
    /\ IF model # "linked"
          THEN /\ tickPc' = "panicked"
               /\ UNCHANGED <<transform, instance>>
          ELSE /\ transform' = update_position(transform, p)
               /\ instance' = p
               /\ UNCHANGED tickPc
    /\ UNCHANGED <<rect, gravity, model, tables, ticks, hit>>
    /\ TickUnchanged

\* The update functions, the event drain and the camera block are over.
begin_stages ==
    /\ tickPc = "update"
    /\ ticks < MaxTicks
    /\ tickPc' = "handle_gravity_collisions"
    /\ UNCHANGED <<rect, gravity, transform, model, tables, instance, ticks, hit>>
    /\ TickUnchanged

\* handle_gravity_collisions
handle_gravity_collisions ==
    /\ tickPc = "handle_gravity_collisions"
    /\ tickPc' = "handle_gravity"
    /\ IF ~({"StationaryPlaneCollider", "RectangleCollider", "Transform3d", "Gravity"}
               \subseteq tables)
          THEN UNCHANGED <<rect, gravity, transform, hit>>
          ELSE LET colliding == is_colliding_axis(rect, other, 2)
                   snapped == IF colliding THEN snap_axis(rect, other, 2) ELSE rect
                   moved == IF colliding THEN update_position(transform, snapped.origin)
                                         ELSE transform
               IN /\ gravity' = IF colliding /\ gravity.kind = "gravity"
                                   THEN [gravity EXCEPT !.velocity = Zero3]
                                   ELSE gravity
                  /\ transform' = moved
                  /\ rect' = [snapped EXCEPT !.origin = moved.position]
                  /\ hit' = colliding
    /\ UNCHANGED <<model, tables, instance, ticks>>
    /\ TickUnchanged

\* handle_gravity
handle_gravity(elapsed) ==
    /\ tickPc = "handle_gravity"
    /\ tickPc' = "update_transforms_to_renderer"
    /\ IF ~({"Transform3d", "Gravity"} \subseteq tables) \/ gravity.kind # "gravity"
          THEN UNCHANGED <<gravity, transform>>
          ELSE LET velocity == VAdd(gravity.velocity, VScale(elapsed[1], gravity.acceleration))
               IN /\ gravity' = [gravity EXCEPT !.velocity = velocity]
                  /\ transform' = add_position(transform, VScale(elapsed[2], velocity))
    /\ UNCHANGED <<rect, model, tables, instance, ticks, hit>>
    /\ TickUnchanged

\* update_transforms_to_renderer
update_transforms_to_renderer ==
    /\ tickPc = "update_transforms_to_renderer"
    /\ IF ~({"Transform3d", "Model3d"} \subseteq tables) \/ ~transform.update_flag
          THEN /\ tickPc' = "reset_delta_time"
               /\ UNCHANGED <<transform, instance>>
          ELSE IF model # "linked"
                  THEN /\ tickPc' = "panicked"
                       /\ UNCHANGED <<transform, instance>>
                  ELSE /\ tickPc' = "reset_delta_time"
                       /\ instance' = transform.position
                       /\ transform' = [transform EXCEPT !.update_flag = FALSE]
    /\ UNCHANGED <<rect, gravity, model, tables, ticks, hit>>
    /\ TickUnchanged

\* `manager.delta_time = Instant::now()` and the end of the loop body.
reset_delta_time ==
    /\ tickPc = "reset_delta_time"
    /\ tickPc' = "update"
    /\ ticks' = ticks + 1
    /\ hit' = FALSE
    /\ UNCHANGED <<rect, gravity, transform, model, tables, instance>>
    /\ TickUnchanged

\* The World the startup functions leave: create_object(model, transform)
\* or add_component calls for the Transform3d, the RectangleCollider and,
\* may be, a Gravity.
InitTick ==
    /\ InitECS
    /\ NoEngine
    /\ NoStage
    /\ NoCamera
    /\ colOp = ColOp("new", 0, 0, 0)
    /\ colResult = FALSE
    /\ impulses = << >>
    /\ gravOp = "new"
    /\ other = PlaneOfTick
    /\ \E o \in TickOrigins, p \in PositionArgs :
          /\ rect = RectangleCollider(2, 2, 2, o)
          /\ transform \in {Transform3d(o), Transform3d(p)}
    /\ gravity \in {[kind |-> "none"], Gravity(<<0, -2, 0>>)}
    /\ model \in {"none", "unlinked", "linked"}
    /\ \E extra \in SUBSET {"Gravity", "Model3d"} :
          tables = {"StationaryPlaneCollider", "RectangleCollider", "Transform3d"}
                      \cup extra
                      \cup (IF gravity.kind = "gravity" THEN {"Gravity"} ELSE {})
                      \cup (IF model # "none" THEN {"Model3d"} ELSE {})
    /\ instance = IF model = "linked" THEN transform.position ELSE "none"
    /\ tickPc = "update"
    /\ ticks = 0
    /\ hit = FALSE

NextTick ==
    \/ \E p \in PositionArgs : user_update_position(p)
    \/ \E p \in PositionArgs : user_add_component(p)
    \/ \E p \in PositionArgs : manager_set_position(p)
    \/ begin_stages
    \/ handle_gravity_collisions
    \/ \E elapsed \in ElapsedPairs : handle_gravity(elapsed)
    \/ update_transforms_to_renderer
    \/ reset_delta_time

SpecTick == InitTick /\ [][NextTick]_vars

\* --------------------------------------- the queries of the built-in stages
\* The component types the built-in stages query.
StageTypes == {"CameraController", "Camera3d", "StationaryPlaneCollider",
               "RectangleCollider", "Transform3d", "Gravity", "Model3d"}

Stages == <<"camera", "handle_gravity_collisions", "handle_gravity",
            "update_transforms_to_renderer">>

StageQueries_aliasing(stage) ==
    CASE stage = "camera" ->
            << <<"CameraController", "mut">>, <<"Camera3d", "mut">> >>
      [] stage = "handle_gravity_collisions" ->
            << <<"StationaryPlaneCollider", "shared">>, <<"RectangleCollider", "mut">>,
               <<"Transform3d", "mut">>, <<"Gravity", "mut">> >>
      [] stage = "handle_gravity" ->
            << <<"Transform3d", "mut">>, <<"Gravity", "mut">> >>
      [] stage = "update_transforms_to_renderer" ->
            << <<"Transform3d", "mut">>, <<"Model3d", "shared">>, <<"Transform3d", "shared">> >>

\* The manager.query::<T>() / query_mut::<T>() calls of each stage, in the
\* order they are made; every guard lives to the end of the stage.
StageQueries(stage) ==
    CASE stage = "camera" ->
            << <<"CameraController", "mut">>, <<"Camera3d", "mut">> >>
      [] stage = "handle_gravity_collisions" ->
            << <<"StationaryPlaneCollider", "shared">>, <<"RectangleCollider", "mut">>,
               <<"Transform3d", "mut">>, <<"Gravity", "mut">> >>
      [] stage = "handle_gravity" ->
            << <<"Transform3d", "mut">>, <<"Gravity", "mut">> >>
      [] stage = "update_transforms_to_renderer" ->
            << <<"Transform3d", "mut">>, <<"Model3d", "shared">> >>

\* The borrow flag of the RefCell of a table, from the guards that are out:
\* -1 with a RefMut, else the number of Refs.
BorrowFlag(held, type) ==
    IF \E i \in 1..Len(held) : held[i] = <<type, "mut">>
       THEN -1
       ELSE Cardinality({i \in 1..Len(held) : held[i] = <<type, "shared">>})

\* RefCell::borrow succeeds unless a RefMut is out, RefCell::borrow_mut
\* only when no guard is out.
CanBorrow(held, type, mode) ==
    IF mode = "mut" THEN BorrowFlag(held, type) = 0 ELSE BorrowFlag(held, type) >= 0

StageAfter(stage) ==
    CASE stage = "camera" -> "handle_gravity_collisions"
      [] stage = "handle_gravity_collisions" -> "handle_gravity"
      [] stage = "handle_gravity" -> "update_transforms_to_renderer"
      [] stage = "update_transforms_to_renderer" -> "camera"

StageUnchanged == UNCHANGED <<ecsVars, colVars, gravVars, engVars, tickVars, camVars>>

\* The next query of the running stage: None for a type with no table (the
\* stage returns and its guards are dropped), a guard otherwise, a panic if
\* the RefCell refuses the borrow.
stage_query ==
    /\ ~aliasing
    /\ stagePc.next <= Len(StageQueries(stagePc.stage))
    /\ LET q == StageQueries(stagePc.stage)[stagePc.next]
       IN IF q[1] \notin tables
             THEN /\ stagePc' = [stage |-> StageAfter(stagePc.stage), next |-> 1]
                  /\ stageGuards' = << >>
                  /\ UNCHANGED aliasing
             ELSE IF CanBorrow(stageGuards, q[1], q[2])
                     THEN /\ stageGuards' = Append(stageGuards, q)
                          /\ stagePc' = [stagePc EXCEPT !.next = @ + 1]
                          /\ UNCHANGED aliasing
                     ELSE /\ aliasing' = TRUE
                          /\ stageGuards' = << >>
                          /\ UNCHANGED stagePc
    /\ StageUnchanged

\* The body of the stage ran with all its guards; it returns and drops them.
stage_return ==
    /\ ~aliasing
    /\ stagePc.next > Len(StageQueries(stagePc.stage))
    /\ stagePc' = [stage |-> StageAfter(stagePc.stage), next |-> 1]
    /\ stageGuards' = << >>
    /\ UNCHANGED aliasing
    /\ StageUnchanged

\* Any World: each queried type has a table or not; the tick starts with
\* the camera block and no guard out.
InitStages ==
    /\ InitECS
    /\ NoCollider
    /\ NoGravity
    /\ NoEngine
    /\ NoCamera
    /\ transform = [kind |-> "none"]
    /\ model = "none"
    /\ tables \in SUBSET StageTypes
    /\ instance = "none"
    /\ tickPc = "unspawned"
    /\ ticks = 0
    /\ hit = FALSE
    /\ stagePc = [stage |-> "camera", next |-> 1]
    /\ stageGuards = << >>
    /\ aliasing = FALSE

NextStages ==
    \/ stage_query
    \/ stage_return

SpecStages == InitStages /\ [][NextStages]_vars

\* ------------------------------------------------------- the camera block
\* The entities that can be given a Camera3d.
CameraEntities == 0..MaxEntities

Range(seq) == {seq[i] : i \in 1..Len(seq)}

\* HashMap::insert of a new key: where the key comes in the iteration order
\* is decided by the hasher of that map, not by the caller.
InsertAt(seq, i, e) == SubSeq(seq, 1, i - 1) \o <<e>> \o SubSeq(seq, i, Len(seq))

CamUnchanged == UNCHANGED <<ecsVars, colVars, gravVars, engVars, tickVars, stageVars>>

\* HeliumManager::create_camera: a new entity gets a Camera3d and a
\* CameraController.
create_camera(entity) ==
    /\ entity \notin Range(camOrder) \cup Range(ctlOrder)
    /\ \A e \in Range(camOrder) \cup Range(ctlOrder) : e < entity
    /\ \E i \in 1..(Len(camOrder) + 1) : camOrder' = InsertAt(camOrder, i, entity)
    /\ \E i \in 1..(Len(ctlOrder) + 1) : ctlOrder' = InsertAt(ctlOrder, i, entity)
    /\ camOp' = "create_camera"
    /\ UNCHANGED applied
    /\ CamUnchanged

\* manager.add_component(entity, camera) on a new entity: a Camera3d with no
\* CameraController.
add_camera_component(entity) ==
    /\ entity \notin Range(camOrder) \cup Range(ctlOrder)
    /\ \A e \in Range(camOrder) \cup Range(ctlOrder) : e < entity
    /\ \E i \in 1..(Len(camOrder) + 1) : camOrder' = InsertAt(camOrder, i, entity)
    /\ camOp' = "add_component"
    /\ UNCHANGED <<ctlOrder, applied>>
    /\ CamUnchanged

Min(a, b) == IF a < b THEN a ELSE b

\* The camera block of the tick: cameras.iter_mut().zip(camera_controllers
\* .iter_mut()) pairs the two tables by iteration position.
camera_block ==
    /\ camOrder # << >>
    /\ ctlOrder # << >>
    /\ applied' = {<<camOrder[i], ctlOrder[i]>> : i \in 1..Min(Len(camOrder), Len(ctlOrder))}
    /\ camOp' = "camera_block"
    /\ UNCHANGED <<camOrder, ctlOrder>>
    /\ CamUnchanged

InitCamera ==
    /\ InitECS
    /\ NoCollider
    /\ NoGravity
    /\ NoEngine
    /\ NoTick
    /\ NoStage
    /\ camOrder = << >>
    /\ ctlOrder = << >>
    /\ applied = {}
    /\ camOp = "new"

NextCamera ==
    \/ \E entity \in CameraEntities : create_camera(entity)
    \/ \E entity \in CameraEntities : add_camera_component(entity)
    \/ camera_block

SpecCamera == InitCamera /\ [][NextCamera]_vars

\* ------------------------------------------------------------ typing
TypeOK ==
    /\ overflow_checks \in BOOLEAN
    /\ entity_count \in 0..MaxEntities
    /\ num_entities \in (EntityMin - MaxWrap)..MaxEntities
    /\ removed \subseteq Issued
    /\ \A i \in 1..Len(component_maps) :
          /\ component_maps[i].type \in Types
          /\ DOMAIN component_maps[i].map \subseteq ComponentArgs
          /\ component_maps[i].borrow \in -1..MaxShared
    /\ outcome \in Panics \cup {"init", "ok"}

\* ================================================================ claims
HasTable(t) == FindMap(component_maps, t) # 0

\* What a guard returned by query::<T>() / query_mut::<T>() dereferences to.
QueryView(t) == component_maps[FindMap(component_maps, t)].map

IsCall(op, t) == lastOp'.op = op /\ lastOp'.t = t

C1_Inv ==
    \A t \in Types :
        \/ guards[t].excl = 0
        \/ guards[t].excl = 1 /\ guards[t].shared = 0

C1_Step ==
    \A t \in Types :
        /\ (IsCall("query", t) /\ guards[t].excl > 0)
              => outcome' = "panic_already_borrowed" /\ guards' = guards
        /\ (IsCall("query_mut", t) /\ guards[t].excl + guards[t].shared > 0)
              => outcome' = "panic_already_borrowed" /\ guards' = guards

\* C1: on every table the outstanding guards are any number of shared guards
\* or exactly one exclusive guard, and a query / query_mut that would break
\* this panics without handing out a guard.
C1_SharedXorExclusive == []C1_Inv /\ [][C1_Step]_vars

C1_Witness ==
    /\ lastOp.op = "query_mut"
    /\ outcome = "panic_already_borrowed"
    /\ guards[lastOp.t].shared > 0

\* C2: query / query_mut on a type that has no table ends in an explicit
\* "not found" result, never in a panic.
C2_AbsentTableNoPanic ==
    (lastOp.op \in {"query", "query_mut"} /\ ~HasTable(lastOp.t))
        => outcome \notin Panics

C6_Step ==
    \A t \in Types :
        /\ (IsCall("query", t) /\ HasTable(t) /\ guards[t].excl = 0)
              => outcome' = "ok" /\ guards'[t].shared = guards[t].shared + 1
        /\ (IsCall("query_mut", t) /\ HasTable(t)
                /\ guards[t].excl = 0 /\ guards[t].shared = 0)
              => outcome' = "ok" /\ guards'[t].excl = 1

\* C6: query::<T>() succeeds while shared guards on T are out, and a query or
\* query_mut on T succeeds whatever guards are out on the other tables.
C6_SharedAndIndependent == [][C6_Step]_vars

C6_Witness ==
    /\ lastOp.op = "query"
    /\ outcome = "ok"
    /\ guards[lastOp.t].shared = 2
    /\ \E u \in Types \ {lastOp.t} : guards[u].excl = 1

C7_Step ==
    \A t \in Types :
        (IsCall("query_mut", t) /\ t \in released
            /\ guards[t].excl = 0 /\ guards[t].shared = 0)
          => outcome' = "ok" /\ guards'[t].excl = 1

\* C7: once every guard handed out on T's table has been dropped, the next
\* query_mut::<T>() succeeds.
C7_DropReleases == [][C7_Step]_vars

C7_Witness ==
    /\ lastOp.op = "query_mut"
    /\ outcome = "ok"
    /\ lastOp.t \in released

NoKey(maps, e) == \A i \in 1..Len(maps) : e \notin DOMAIN maps[i].map

C3_Inv ==
    lastOp.op = "add_component"
        => /\ outcome = "ok"
           /\ HasTable(lastOp.t)
           /\ lastOp.e \in DOMAIN QueryView(lastOp.t)
           /\ QueryView(lastOp.t)[lastOp.e] = lastOp.v

C3_Step ==
    \A t \in Types :
        (IsCall("add_component", t) /\ HasTable(t))
            => DOMAIN QueryView(t)' = DOMAIN QueryView(t) \cup {lastOp'.e}

\* C3: after add_component(e, v) the table of the component's type maps e
\* to v, also when e already had a component of that type: the entry is
\* overwritten and no other key appears.
C3_AddThenQuery == []C3_Inv /\ [][C3_Step]_vars

C3_Witness ==
    /\ lastOp.op = "add_component"
    /\ lastOp.had
    /\ lastOp.v = 100
    /\ QueryView(lastOp.t)[lastOp.e] = 100
    /\ Cardinality(DOMAIN QueryView(lastOp.t)) = 2

\* C4 as stated: an entity removed via remove_entity is never again a key of
\* any component table.
C4_RemovedNeverQueried == \A e \in removed : NoKey(component_maps, e)

C4_Step ==
    \A e \in EntityArgs :
        /\ (lastOp'.op = "remove_entity" /\ lastOp'.e = e) => NoKey(component_maps', e)
        /\ (NoKey(component_maps, e) /\ ~(lastOp'.op = "add_component" /\ lastOp'.e = e))
              => NoKey(component_maps', e)

\* C4 (amended): right after remove_entity(e) no component table holds a
\* key e, and none holds one later until add_component is called for e.
C4_RemovedUntilReadded == [][C4_Step]_vars

C4_Witness ==
    /\ lastOp.op = "remove_entity"
    /\ lastOp.had
    /\ lastOp.e \in removed
    /\ Len(component_maps) = 2
    /\ NoKey(component_maps, lastOp.e)

\* C5: new_entity never fails and returns ids in strictly increasing order,
\* so no id is issued twice, removed or not.
C5_FreshIds ==
    /\ \A i, j \in 1..Len(issued) : i < j => issued[i] < issued[j]
    /\ lastOp.op = "new_entity" => outcome = "ok" /\ lastOp.e = issued[Len(issued)]

C5_Witness ==
    /\ lastOp.op = "new_entity"
    /\ Len(issued) >= 2
    /\ issued[1] \in removed

\* C8: get_num_entities() is the number of entities created and not yet
\* removed.
C8_LiveCount == get_num_entities = Cardinality(Live)

C9_Step ==
    (lastOp'.op = "remove_entity" /\ ~lastOp'.had)
        => outcome' = "ok" /\ component_maps' = component_maps

\* C9: remove_entity(e) for an id that holds no component completes without
\* error and leaves every component table unchanged.
C9_RemoveAbsentIsNoop == [][C9_Step]_vars

\* C10: the store holds exactly one table for each type add_component was
\* ever called with and none for any other type, whatever was removed since.
C10_OneTablePerType ==
    \A t \in Types :
        Cardinality({i \in 1..Len(component_maps) : component_maps[i].type = t})
            = IF t \in everAdded THEN 1 ELSE 0

C10_Witness ==
    /\ lastOp.op \in {"remove_component", "remove_entity"}
    /\ Len(component_maps) = 2
    /\ \E i \in 1..2 : component_maps[i].map = EmptyMap

\* ------------------------------------------------------- collider claims
IsBox(c) == c.kind = "rect"

\* Both boxes are cubes of the same edge, displaced along one axis only.
SameCubeOnOneAxis(a, b) ==
    /\ IsBox(a) /\ IsBox(b)
    /\ a.width = a.height /\ a.height = a.length
    /\ b.width = a.width /\ b.height = a.width /\ b.length = a.width
    /\ Cardinality({axis \in 1..3 : a.origin[axis] # b.origin[axis]}) <= 1

Offset(a, b) == Abs(a.origin[1] - b.origin[1]) + Abs(a.origin[2] - b.origin[2])
                    + Abs(a.origin[3] - b.origin[3])

\* C11: is_colliding on two boxes of the same edge s, displaced by d along
\* one axis, answers true when d < s and when d = s, and false when d > s.
C11_BoxBoxColliding ==
    (colOp.op = "is_colliding" /\ SameCubeOnOneAxis(rect, other))
        => (colResult <=> Offset(rect, other) <= rect.width)

\* The footprint of the box lies inside the extent of the unrotated plane.
OverPlane(box, plane) ==
    /\ Abs(box.origin[1] - plane.origin[1]) + Half(box.width) <= Half(plane.width)
    /\ Abs(box.origin[3] - plane.origin[3]) + Half(box.length) <= Half(plane.length)

Bottom(box) == box.origin[2] - Half(box.height)

\* C12: a box whose bottom face lies exactly on an unrotated plane, inside
\* the plane's extent, is colliding with it; a box wholly above the plane is
\* not.
C12_BoxOnPlane ==
    (colOp.op = "is_colliding" /\ other.kind = "plane" /\ OverPlane(rect, other))
        => /\ Bottom(rect) = other.origin[2] => colResult
           /\ Bottom(rect) > other.origin[2] => ~colResult

C13_Step ==
    (colOp'.op = "snap_axis" /\ IsBox(other) /\ rect.origin[colOp'.axis] # other.origin[colOp'.axis])
        => /\ ~is_colliding_axis(rect', other, colOp'.axis)
           /\ snap_axis(rect', other, colOp'.axis) = rect'

\* C13: after a.snap_x(b) (snap_y, snap_z) the boxes no longer collide on
\* that axis, whichever side a was on, and a second snap changes nothing.
C13_SnapSeparates == [][C13_Step]_vars

\* The coordinate the resolved axis gets: the other's centre minus or plus
\* half the sum of the two extents, by the side self is on along that same
\* axis; unchanged on a tie.
Resolved(self, o, axis) ==
    LET reach == Half(Extent(self, axis)) + Half(Extent(o, axis))
    IN  IF self.origin[axis] < o.origin[axis] THEN o.origin[axis] - reach
        ELSE IF self.origin[axis] > o.origin[axis] THEN o.origin[axis] + reach
        ELSE self.origin[axis]

C14_Step ==
    /\ colOp'.op = "snap_axis" =>
          \A axis \in 1..3 :
              rect'.origin[axis] = IF axis = colOp'.axis THEN Resolved(rect, other, axis)
                                   ELSE rect.origin[axis]
    /\ colOp'.op = "snap" =>
          \A axis \in 1..3 : rect'.origin[axis] = Resolved(rect, other, axis)

\* C14: snap_x / snap_y / snap_z move the resolved axis only, and every axis
\* resolved by snap is decided by the two origins on that same axis; a tie
\* on an axis leaves that coordinate alone.
C14_SnapPerAxis == [][C14_Step]_vars

\* The half-open intervals [a, b) and [c, d) have a point in common.
Intersects(a, b, c, d) == \E x \in (a - 1)..b : a <= x /\ x < b /\ c <= x /\ x < d

BoxStart(c, axis) == c.origin[axis] - Half(Extent(c, axis))

BoxEnd(c, axis) == c.origin[axis] + Half(Extent(c, axis))

\* C15: contains_x / _y / _z(r) is true exactly when r intersects the box's
\* half-open interval on that axis, and is_colliding_x / _y / _z(other) is
\* true exactly when the two boxes' intervals intersect.
C15_ContainsIsOverlap ==
    /\ colOp.op = "contains" =>
          (colResult <=> Intersects(BoxStart(rect, colOp.axis), BoxEnd(rect, colOp.axis),
                                    colOp.lo, colOp.hi))
    /\ (colOp.op = "is_colliding_axis" /\ IsBox(other)) =>
          (colResult <=> Intersects(BoxStart(rect, colOp.axis), BoxEnd(rect, colOp.axis),
                                    BoxStart(other, colOp.axis), BoxEnd(other, colOp.axis)))

\* C16: the cached vertices of a box are the corners computed from its
\* width, height, length and current origin, after any snap, set_origin or
\* origin update of the collision stage.
C16_VerticesFollowOrigin ==
    IsBox(rect) => rect.vertices = compute_vertices(rect.width, rect.height, rect.length, rect.origin)

\* -------------------------------------------------------- gravity claims
RECURSIVE SumImpulses(_)
\* The sum of acceleration * elapsed over a sequence of updates.
SumImpulses(h) ==
    IF h = << >> THEN Zero3
    ELSE VAdd(SumImpulses(SubSeq(h, 1, Len(h) - 1)), VScale(h[Len(h)][2], h[Len(h)][1]))

\* C17: the velocity of a Gravity is the sum of acceleration * elapsed over
\* the update_gravity calls since its creation or the last kill_velocity;
\* kill_velocity makes it zero and set_gravity leaves it as it is.
C17_VelocityIsSum ==
    gravity.kind = "gravity" =>
        /\ gravity.velocity = SumImpulses(impulses)
        /\ gravOp = "kill_velocity" => gravity.velocity = Zero3

C17_Witness ==
    /\ gravOp = "set_gravity"
    /\ Len(impulses) = 2
    /\ impulses[1][1] # impulses[2][1]
    /\ impulses[1][2] > 0 /\ impulses[2][2] > 0
    /\ gravity.velocity # Zero3

\* --------------------------------------------------------- engine claims
IsPrefix(a, b) == Len(a) <= Len(b) /\ a = SubSeq(b, 1, Len(a))

\* C18: every input event enqueued by device_event is delivered to each
\* input function exactly once and in the order of enqueueing, under any
\* interleaving of the two threads: what an input function has received is
\* always a prefix of what was enqueued, and nothing enqueued is left
\* undelivered once the update thread has ended.
C18_ExactlyOnceInOrder ==
    \A f \in InputFunctions :
        /\ IsPrefix(delivered[f], enqueued)
        /\ SimStopped => delivered[f] = enqueued

\* A tick is started: the update functions are entered.
TickStarts == simPc' = "update" /\ simPc # "update"

C19_ExitAfterJoin == mainPc = "exited" => simPc = "done"

C19_NoFurtherTick == ~event_loop_working => ~TickStarts

\* C19: once the shutdown flag is set on window close, the update thread
\* sees it at the end of the tick it is running, starts no further tick and
\* ends, so the join in the close handler returns, and the event loop exits
\* only after the join.
C19_CleanShutdown ==
    /\ []C19_ExitAfterJoin
    /\ [][C19_NoFurtherTick]_vars
    /\ (mainPc = "join") ~> (mainPc = "exited")

C20_Step ==
    \A t \in {"main", "sim"} :
        (t \in accessing /\ t \notin accessing') => rendererLock' # t

C20_Inv ==
    /\ Cardinality(accessing) <= 1
    /\ \A t \in accessing : rendererLock = t

\* C20: the render backend is never accessed by both threads at once: every
\* access is made by the holder of the renderer mutex, and the mutex is
\* released when the access ends.
C20_BackendUnderMutex == []C20_Inv /\ [][C20_Step]_vars

C20_Witness ==
    /\ accessing = {"sim"}
    /\ simBurst = "update_instances"
    /\ mainPc = "loop"
    /\ "main" \in bursts

\* C21: a failure raised inside an input function or a tick stage aborts
\* only that tick: it never ends the update thread, and it never brings the
\* presentation thread down, the join of the close handler included.
C21_FailureContained == simPc # "panicked" /\ mainPc # "panicked"

\* ----------------------------------------------------------- tick claims
\* The built-in stage that runs in this step.
StageRuns(stage) == tickPc = stage /\ tickPc' # stage

C22_Step ==
    /\ StageRuns("handle_gravity") /\ tickPc' # "panicked"
          => tickPc' = "handle_gravity_collisions"
    /\ StageRuns("handle_gravity_collisions") /\ tickPc' # "panicked"
          => tickPc' = "update_transforms_to_renderer"
    /\ StageRuns("update_transforms_to_renderer") /\ tickPc' # "panicked"
          => tickPc' = "reset_delta_time"
    /\ tickPc' = "reset_delta_time" => tickPc \in {"update_transforms_to_renderer", "reset_delta_time"}

\* C22: in every tick the built-in stages run in the order gravity
\* integration, collision resolution, propagation of the dirty transforms to
\* the renderer, and the delta-time reference is reset after all three.
C22_StageOrder == [][C22_Step]_vars

\* The box-plane overlap test of the box at its current origin.
OverlapsPlane == is_colliding(WithOrigin(rect, rect.origin), other)

C23_Step ==
    (StageRuns("handle_gravity_collisions") /\ gravity.kind = "gravity")
        => /\ hit' <=> OverlapsPlane
           /\ hit' => /\ rect'.origin = snap_axis(rect, other, 2).origin
                      /\ gravity'.velocity = Zero3
                      /\ transform'.position = rect'.origin
           /\ ~OverlapsPlane => transform' = transform /\ gravity' = gravity

\* C23: in the collision stage an entity with a RectangleCollider and a
\* Gravity is snapped on Y, loses its velocity and gets the snapped origin
\* written to its Transform exactly when its box overlaps the plane under
\* the box-plane overlap test; a box that overlaps no plane is left as it is.
C23_SnapIffOverlap == [][C23_Step]_vars

C24_Step ==
    (StageRuns("handle_gravity") /\ hit)
        => /\ transform'.position = transform.position
           /\ gravity.kind = "gravity" => gravity'.velocity = Zero3

\* C24: the integration stage moves only the entities that had no collision
\* hit in the tick: an entity snapped in the tick keeps its snapped position
\* and its zero velocity to the end of the tick.
C24_HitNotIntegrated == [][C24_Step]_vars

C25_Step ==
    (StageRuns("handle_gravity_collisions") /\ gravity.kind = "none")
        => /\ tickPc' # "panicked"
           /\ rect'.origin = rect.origin
           /\ transform' = transform

\* C25: an entity with a RectangleCollider and no Gravity is skipped by the
\* collision stage: no error, and its collider origin and Transform are
\* unchanged, even when its box overlaps a plane.
C25_NoGravitySkipped == [][C25_Step]_vars

C26_Step ==
    (StageRuns("update_transforms_to_renderer") /\ transform.update_flag /\ model # "linked")
        => /\ tickPc' = "reset_delta_time"
           /\ instance' = instance

\* C26: a dirty Transform of an entity with no renderer-linked Model3d makes
\* the render-sync stage issue no renderer update and raise no error; the
\* tick goes on.
C26_UnlinkedNotMirrored == [][C26_Step]_vars

\* C27: the dirty flag of a Transform is true exactly when its position
\* differs from what the renderer was last given for it, and no Transform is
\* dirty after a render-sync stage.
C27_DirtyIffUnsynced ==
    /\ model = "linked" => (transform.update_flag <=> instance # transform.position)
    /\ tickPc = "reset_delta_time" => ~transform.update_flag

\* C28: the built-in stages of a tick never request a borrow of a component
\* type that conflicts with a guard the tick code still holds on that type:
\* with no user guard out, no stage raises an aliasing violation.
C28_NoAliasingInStages ==
    /\ ~aliasing
    /\ \A t \in StageTypes :
          Cardinality({i \in 1..Len(stageGuards) : stageGuards[i][1] = t}) <= 1

C28_Witness ==
    /\ stagePc.stage = "handle_gravity_collisions"
    /\ Len(stageGuards) = 4

\* C29: the camera block moves and rotates each Camera3d with the
\* CameraController of the same entity, whatever the number of cameras and
\* controllers and the iteration order of the two tables.
C29_ControllerOfSameEntity ==
    camOp = "camera_block" =>
        /\ \A pair \in applied : pair[1] = pair[2]
        /\ \A e \in Range(camOrder) \cap Range(ctlOrder) : <<e, e>> \in applied

\* C30: the mutexes (render backend, event queue, the three callback lists,
\* the shutdown flag) never deadlock: no thread locks a mutex it already
\* holds, the two threads never hold the same mutex, and the two threads
\* never wait for each other, neither while the update thread keeps the
\* event queue locked across the input functions nor while the close handler
\* is inside join(), which holds no mutex.
C30_NoDeadlock ==
    /\ \A thread \in Threads : Wanted(thread) \cap Held(thread) = {}
    /\ Held("main") \cap Held("sim") = {}
    /\ ~(WaitsFor("main", "sim") /\ WaitsFor("sim", "main"))
    /\ mainPc = "join" => Held("main") = {}

C30_Witness ==
    /\ mainPc = "join"
    /\ simPc = "deliver"
    /\ eventLock = "sim"
    /\ rendererLock = "sim"
    /\ "main" \in bursts

====
